---- MODULE Spec2Model ----
(***************************************************************************)
(* check_blocking.py: the static analyser for blocking calls inside async  *)
(* functions (src/using-asyncio-python/scripts/check_blocking.py).         *)
(*                                                                         *)
(* A parsed file is a syntax tree.  The tree is a sequence of nodes in     *)
(* source order (depth-first pre-order); node i carries the index of its   *)
(* parent (0 is the ast.Module root), its kind, the name of a definition   *)
(* and, for a Call, its callee expression.  One run of main() walks the    *)
(* positional paths, analyses every Python file and reports.               *)
(***************************************************************************)
EXTENDS Integers, Sequences, FiniteSets

\* ------------------------------------------------------------------------
\* Bounds of the model
\* ------------------------------------------------------------------------
\* Nodes below the Module root in a tree over the core node labels.
MaxNodes == 4
\* Nodes below the Module root in a tree over every node label.
MaxRichNodes == 2
\* Positional paths on the command line.
MaxPaths == 2

\* ------------------------------------------------------------------------
\* Syntax nodes (ast.AST as the analyser reads it)
\* ------------------------------------------------------------------------
NoExpr == [form |-> "None", id |-> ""]
NameExpr(id) == [form |-> "Name", id |-> id]
\* Any expression that is neither a Name nor an Attribute (a call result,
\* a subscript, ...).
OtherExpr == [form |-> "Other", id |-> ""]

NoFunc == [form |-> "None", id |-> "", value |-> NoExpr, attr |-> ""]
\* Callee `id(...)`.
NameFunc(id) == [form |-> "Name", id |-> id, value |-> NoExpr, attr |-> ""]
\* Callee `value.attr(...)`.
AttributeFunc(value, attr) ==
    [form |-> "Attribute", id |-> "", value |-> value, attr |-> attr]
\* Callee that is neither a Name nor an Attribute, e.g. `handlers[0](...)`.
OtherFunc == [form |-> "Other", id |-> "", value |-> NoExpr, attr |-> ""]

\* A node label: the node's class, the name it carries (a definition's
\* name, a Name's id, an Attribute's attr), a Call's callee, and the field
\* of the parent node that holds the node.
AsyncFunctionDef(name) ==
    [kind |-> "AsyncFunctionDef", name |-> name, func |-> NoFunc, field |-> "body"]
FunctionDef ==
    [kind |-> "FunctionDef", name |-> "helper", func |-> NoFunc, field |-> "body"]
ClassDef ==
    [kind |-> "ClassDef", name |-> "Helper", func |-> NoFunc, field |-> "body"]
Call(func) == [kind |-> "Call", name |-> "", func |-> func, field |-> "body"]
\* Every other node kind (statements, names, lambdas, awaits, ...).
Other == [kind |-> "Other", name |-> "", func |-> NoFunc, field |-> "body"]

\* `async with ...:`, its items (ast.withitem), `await ...`, the
\* ast.arguments of a definition, and the expressions `id` and `x.attr`
\* that are not called.
AsyncWith == [kind |-> "AsyncWith", name |-> "", func |-> NoFunc, field |-> "body"]
withitem == [kind |-> "withitem", name |-> "", func |-> NoFunc, field |-> "items"]
Await == [kind |-> "Await", name |-> "", func |-> NoFunc, field |-> "body"]
arguments == [kind |-> "arguments", name |-> "", func |-> NoFunc, field |-> "args"]
Name(id) == [kind |-> "Name", name |-> id, func |-> NoFunc, field |-> "body"]
Attribute(attr) ==
    [kind |-> "Attribute", name |-> attr, func |-> NoFunc, field |-> "body"]
\* The same node held by another field of its parent: a decorator, a
\* base class, a default value, a context expression, an awaited value.
InField(label, field) == [label EXCEPT !.field = field]

\* The labels of the large trees: both definitions kinds, two async
\* function names, one blocking call and one node that is no call.
CoreLabels ==
    { AsyncFunctionDef("f"), AsyncFunctionDef("g"), FunctionDef, ClassDef,
      Call(AttributeFunc(NameExpr("time"), "sleep")), Other }

\* Callee shapes that exercise every branch of the matchers.
Callees ==
    { NameFunc("open"), NameFunc("print"), NameFunc("sleep"),
      OtherFunc,
      AttributeFunc(NameExpr("requests"), "get"),
      AttributeFunc(NameExpr("requests"), "post"),
      AttributeFunc(NameExpr("requests"), "put"),
      AttributeFunc(NameExpr("requests"), "delete"),
      AttributeFunc(NameExpr("requests"), "read"),
      AttributeFunc(NameExpr("time"), "sleep"),
      AttributeFunc(NameExpr("time"), "get"),
      AttributeFunc(NameExpr("subprocess"), "run"),
      AttributeFunc(NameExpr("subprocess"), "call"),
      AttributeFunc(NameExpr("fh"), "read"),
      AttributeFunc(NameExpr("fh"), "write"),
      AttributeFunc(NameExpr("fh"), "readlines"),
      AttributeFunc(NameExpr("fh"), "close"),
      AttributeFunc(OtherExpr, "read"),
      AttributeFunc(OtherExpr, "get") }

NodeLabels == CoreLabels \cup { Call(c) : c \in Callees }

\* ------------------------------------------------------------------------
\* Syntax trees
\* ------------------------------------------------------------------------
WithParent(label, p) ==
    [parent |-> p, kind |-> label.kind, name |-> label.name, func |-> label.func,
     field |-> label.field]

RECURSIVE AncestorsOrSelf(_, _)
\* i and every node above it, the Module root 0 included.
AncestorsOrSelf(tree, i) ==
    IF i = 0 THEN {0} ELSE {i} \cup AncestorsOrSelf(tree, tree[i].parent)

\* parents[i] is the parent of node i.  The nodes are numbered in source
\* order exactly when every node hangs on the node before it or on one of
\* that node's ancestors.
IsPreorder(parents, n) ==
    LET RECURSIVE Up(_, _)
        \* The node `steps` levels above j (the root is its own parent).
        Up(j, steps) ==
            IF steps = 0 \/ j = 0 THEN j ELSE Up(parents[j], steps - 1)
    IN \A i \in 1..n :
          /\ parents[i] < i
          /\ parents[i] \in { Up(i - 1, k) : k \in 0..n }

\* The tree with these parents and these node labels.
MakeTree(parents, labels, n) == [i \in 1..n |-> WithParent(labels[i], parents[i])]

Nodes(tree) == 1..Len(tree)

\* node.lineno and node.col_offset: every node sits on its own line, in
\* source order, indented by its depth.
lineno(tree, i) == i
col_offset(tree, i) == 4 * (Cardinality(AncestorsOrSelf(tree, i)) - 2)

\* The place of a field among the _fields of the node classes:
\* FunctionDef and AsyncFunctionDef list args, body, decorator_list;
\* ClassDef bases, body, decorator_list; AsyncWith items, body.
FieldOrder ==
    << {"args", "bases", "items", "defaults", "context_expr", "value"},
       {"body"},
       {"decorator_list"} >>

\* ast.iter_child_nodes(node): the children field by field, in the order
\* of the node's _fields, those of one field in source order.
iter_child_nodes(tree, i) ==
    LET all == [j \in 1..Len(tree) |-> j]
        InFields(fields) ==
            LET IsChild(j) == tree[j].parent = i /\ tree[j].field \in fields
            IN SelectSeq(all, IsChild)
    IN InFields(FieldOrder[1]) \o InFields(FieldOrder[2]) \o InFields(FieldOrder[3])

RECURSIVE WalkQueue(_, _)
WalkQueue(tree, todo) ==
    IF todo = <<>> THEN <<>>
    ELSE <<Head(todo)>>
         \o WalkQueue(tree, Tail(todo) \o iter_child_nodes(tree, Head(todo)))

\* ast.walk cut down to ast.iter_child_nodes: the node and its direct
\* children only.
walk_children(tree, node) == <<node>> \o iter_child_nodes(tree, node)

\* ast.walk(node): node and its descendants, breadth first.
walk(tree, node) == WalkQueue(tree, <<node>>)

Range(s) == { s[k] : k \in 1..Len(s) }

\* ------------------------------------------------------------------------
\* Rules
\* ------------------------------------------------------------------------
\* _call_matches testing the node itself where it should test node.func:
\* a bare Name with the id is accepted, called or not.
_call_matches_on_name(node, name_parts) ==
    IF node.kind = "Name" THEN Len(name_parts) = 1 /\ node.name = name_parts[1]
    ELSE IF node.kind # "Call" THEN FALSE
    ELSE LET func == node.func IN
         IF Len(name_parts) = 1 /\ func.form = "Name"
         THEN func.id = name_parts[1]
         ELSE IF Len(name_parts) = 2 /\ func.form = "Attribute"
         THEN LET obj == func.value IN
              obj.form = "Name" /\ obj.id = name_parts[1] /\ func.attr = name_parts[2]
         ELSE FALSE

\* True if node is a Call whose function matches the dotted name.
_call_matches(node, name_parts) ==
    IF node.kind # "Call" THEN FALSE
    ELSE LET func == node.func IN
         IF Len(name_parts) = 1 /\ func.form = "Name"
         THEN func.id = name_parts[1]
         ELSE IF Len(name_parts) = 2 /\ func.form = "Attribute"
         THEN LET obj == func.value IN
              obj.form = "Name" /\ obj.id = name_parts[1] /\ func.attr = name_parts[2]
         ELSE FALSE

_is_sync_open(node) == _call_matches(node, <<"open">>)

\* _is_file_rw asking, as _call_matches does, for a receiver that is a
\* plain name.
_is_file_rw_name_receiver(node) ==
    IF node.kind # "Call" THEN FALSE
    ELSE LET func == node.func IN
         /\ func.form = "Attribute"
         /\ func.value.form = "Name"
         /\ func.attr \in {"read", "write", "readlines"}

\* _is_file_rw without the test of the attribute's name: any method call.
_is_file_rw_any_attribute(node) ==
    IF node.kind # "Call" THEN FALSE
    ELSE LET func == node.func IN func.form = "Attribute"

_is_file_rw(node) ==
    IF node.kind # "Call" THEN FALSE
    ELSE LET func == node.func IN
         func.form = "Attribute" /\ func.attr \in {"read", "write", "readlines"}

\* A Rule: its id and its matcher (the matcher function and, for the
\* lambdas over _call_matches, the dotted name they pass).
Rule(id, matcher, name_parts) ==
    [id |-> id, matcher |-> matcher, name_parts |-> name_parts]

RULES ==
    << Rule("ASYNC001", "_call_matches", <<"requests", "get">>),
       Rule("ASYNC002", "_call_matches", <<"requests", "post">>),
       Rule("ASYNC003", "_call_matches", <<"requests", "put">>),
       Rule("ASYNC004", "_call_matches", <<"requests", "delete">>),
       Rule("ASYNC005", "_call_matches", <<"time", "sleep">>),
       Rule("ASYNC006", "_is_sync_open", <<>>),
       Rule("ASYNC007", "_call_matches", <<"subprocess", "run">>),
       Rule("ASYNC008", "_call_matches", <<"subprocess", "call">>),
       Rule("ASYNC009", "_is_file_rw", <<>>) >>

\* The registry the engine iterates: the value of the global RULES.
VARIABLE rules

\* rule.matcher(node)
matcher(rule, node) ==
    CASE rule.matcher = "_call_matches" -> _call_matches(node, rule.name_parts)
      [] rule.matcher = "_is_sync_open" -> _is_sync_open(node)
      [] rule.matcher = "_is_file_rw" -> _is_file_rw(node)

\* ------------------------------------------------------------------------
\* Finding
\* ------------------------------------------------------------------------
Finding(file, line, col, async_func, rule) ==
    [file |-> file, line |-> line, col |-> col, async_func |-> async_func,
     rule |-> rule.id]

\* _collect_async_funcs over the statements of the module only
\* (ast.iter_child_nodes(tree) in place of ast.walk(tree)).
_collect_async_funcs_toplevel(tree) ==
    LET IsAsync(n) == n # 0 /\ tree[n].kind = "AsyncFunctionDef"
    IN SelectSeq(walk_children(tree, 0), IsAsync)

\* _collect_async_funcs that does not look inside synchronous defs and
\* classes: the async functions defined there are not yielded.
_collect_async_funcs_outside_sync(tree) ==
    LET IsAsync(n) ==
            /\ n # 0
            /\ tree[n].kind = "AsyncFunctionDef"
            /\ \A d \in AncestorsOrSelf(tree, n) \ {0} :
                  tree[d].kind \notin {"FunctionDef", "ClassDef"}
    IN SelectSeq(walk(tree, 0), IsAsync)

\* Yield all async def nodes in the tree, including nested ones.
_collect_async_funcs(tree) ==
    LET IsAsync(n) == n # 0 /\ tree[n].kind = "AsyncFunctionDef"
    IN SelectSeq(walk(tree, 0), IsAsync)

\* _nodes_inside_sync_context without the inner walk: only the nested
\* definition nodes themselves are marked, not what they contain.
_nodes_inside_sync_context_shallow(tree, func_node) ==
    { n \in Range(walk(tree, func_node)) :
        tree[n].kind \in {"FunctionDef", "ClassDef"} }

\* _nodes_inside_sync_context walking the statements of the nested
\* definition's body (for stmt in node.body) instead of the definition
\* node: its decorators, base classes and arguments are not excluded.
_nodes_inside_sync_context_body_only(tree, func_node) ==
    UNION { {node} \cup
            UNION { Range(walk(tree, stmt)) :
                    stmt \in { j \in Nodes(tree) :
                               tree[j].parent = node /\ tree[j].field = "body" } } :
            node \in { n \in Range(walk(tree, func_node)) :
                       tree[n].kind \in {"FunctionDef", "ClassDef"} } }

\* _nodes_inside_sync_context testing for ast.FunctionDef alone: nested
\* classes are not excluded.
_nodes_inside_sync_context_defs_only(tree, func_node) ==
    UNION { Range(walk(tree, node)) :
            node \in { n \in Range(walk(tree, func_node)) :
                       tree[n].kind = "FunctionDef" } }

\* The set of node ids that are inside a nested sync def or class.
_nodes_inside_sync_context(tree, func_node) ==
    UNION { Range(walk(tree, node)) :
            node \in { n \in Range(walk(tree, func_node)) :
                       tree[n].kind \in {"FunctionDef", "ClassDef"} } }

RECURSIVE RulesLoop_funcpos(_, _, _, _, _)
\* RulesLoop reporting async_func.lineno and async_func.col_offset in
\* place of the node's.
RulesLoop_funcpos(path, tree, async_func, node, k) ==
    IF k > Len(rules) THEN <<>>
    ELSE (IF matcher(rules[k], tree[node])
          THEN << Finding(path, lineno(tree, async_func),
                          col_offset(tree, async_func),
                          tree[async_func].name, rules[k]) >>
          ELSE <<>>)
         \o RulesLoop_funcpos(path, tree, async_func, node, k + 1)

RECURSIVE RulesLoop(_, _, _, _, _)
\* for rule in RULES: if rule.matcher(node): findings.append(...)
RulesLoop(path, tree, async_func, node, k) ==
    IF k > Len(rules) THEN <<>>
    ELSE (IF matcher(rules[k], tree[node])
          THEN << Finding(path, lineno(tree, node), col_offset(tree, node),
                          tree[async_func].name, rules[k]) >>
          ELSE <<>>)
         \o RulesLoop(path, tree, async_func, node, k + 1)

RECURSIVE NodesLoop(_, _, _, _, _)
\* for node in ast.walk(async_func): skip the excluded nodes, try the rules
NodesLoop(path, tree, async_func, excluded, todo) ==
    IF todo = <<>> THEN <<>>
    ELSE (IF Head(todo) \in excluded THEN <<>>
          ELSE RulesLoop(path, tree, async_func, Head(todo), 1))
         \o NodesLoop(path, tree, async_func, excluded, Tail(todo))

RECURSIVE FuncsLoop_walk_tree(_, _, _)
\* FuncsLoop walking the whole tree (ast.walk(tree)) for every async
\* function instead of the function's own subtree.
FuncsLoop_walk_tree(path, tree, funcs) ==
    IF funcs = <<>> THEN <<>>
    ELSE NodesLoop(path, tree, Head(funcs),
                   _nodes_inside_sync_context(tree, Head(funcs)),
                   Tail(walk(tree, 0)))
         \o FuncsLoop_walk_tree(path, tree, Tail(funcs))

RECURSIVE FuncsLoop(_, _, _)
\* for async_func in _collect_async_funcs(tree)
FuncsLoop(path, tree, funcs) ==
    IF funcs = <<>> THEN <<>>
    ELSE NodesLoop(path, tree, Head(funcs),
                   _nodes_inside_sync_context(tree, Head(funcs)),
                   walk(tree, Head(funcs)))
         \o FuncsLoop(path, tree, Tail(funcs))

\* What is in a Python file: whether reading and parsing it succeed, and
\* the tree ast.parse builds.
\*   "ok"          read_text and ast.parse return
\*   "OSError"     read_text raises OSError
\*   "SyntaxError" ast.parse raises SyntaxError
\*   "Uncaught"    ast.parse raises an exception that is no SyntaxError
\*                 (RecursionError on deeply nested source, MemoryError)
Statuses == {"ok", "OSError", "SyntaxError", "Uncaught"}
Content(status, tree) == [status |-> status, tree |-> tree]

RECURSIVE AllNodesLoop(_, _, _)
AllNodesLoop(path, tree, todo) ==
    IF todo = <<>> THEN <<>>
    ELSE LET Hit(rule) == matcher(rule, tree[Head(todo)])
             Report(rule) == Finding(path, lineno(tree, Head(todo)),
                                     col_offset(tree, Head(todo)), "<module>", rule)
             hits == SelectSeq(rules, Hit)
         IN [k \in 1..Len(hits) |-> Report(hits[k])]
            \o AllNodesLoop(path, tree, Tail(todo))

\* check_file without the restriction to async functions: the rules are
\* tried on every node of the file.
check_file_all_scopes(path, content) ==
    IF content.status = "ok"
    THEN [findings |-> AllNodesLoop(path, content.tree, Tail(walk(content.tree, 0))),
          raised |-> FALSE, err |-> <<>>]
    ELSE [findings |-> <<>>, raised |-> content.status = "Uncaught", err |-> <<>>]

\* check_file(path): the findings it returns, what it prints on stderr,
\* and whether an exception leaves it.
check_file(path, content) ==
    CASE content.status = "OSError" ->
           [findings |-> <<>>, raised |-> FALSE,
            err |-> << <<"ERROR: Cannot read", path>> >>]
      [] content.status = "SyntaxError" ->
           [findings |-> <<>>, raised |-> FALSE,
            err |-> << <<"ERROR: Syntax error in", path>> >>]
      [] content.status = "Uncaught" ->
           [findings |-> <<>>, raised |-> TRUE, err |-> <<>>]
      [] content.status = "ok" ->
           [findings |-> FuncsLoop(path, content.tree,
                                   _collect_async_funcs(content.tree)),
            raised |-> FALSE, err |-> <<>>]

\* ------------------------------------------------------------------------
\* The file system the run reads
\* ------------------------------------------------------------------------
\* Every path of the model, in the order pathlib.Path sorts them.
PathOrder == <<"a.py", "d", "d/b.py", "d/c.py", "missing", "notes.txt">>
Paths == Range(PathOrder)
PyFiles == {"a.py", "d/b.py", "d/c.py"}

is_file(path) == path \in PyFiles \cup {"notes.txt"}
is_dir(path) == path = "d"
suffix(path) ==
    IF path \in PyFiles THEN ".py" ELSE IF path = "notes.txt" THEN ".txt" ELSE ""
\* path.rglob("*.py")
rglob(path) == IF path = "d" THEN {"d/b.py", "d/c.py"} ELSE {}
\* sorted(paths) turned round: the greatest path first.
sorted_descending(set) ==
    LET In(x) == x \in set
        asc == SelectSeq(PathOrder, In)
    IN [i \in 1..Len(asc) |-> asc[Len(asc) + 1 - i]]

\* sorted(paths)
sorted(set) == LET In(x) == x \in set IN SelectSeq(PathOrder, In)

\* iter_python_files(path): the files it yields and what it prints on
\* stderr.
iter_python_files(path) ==
    IF is_file(path)
    THEN [files |-> IF suffix(path) = ".py" THEN <<path>> ELSE <<>>, err |-> <<>>]
    ELSE IF is_dir(path)
    THEN [files |-> sorted(rglob(path)), err |-> <<>>]
    ELSE [files |-> <<>>, err |-> << <<"WARNING: not a file or directory", path>> >>]

\* ------------------------------------------------------------------------
\* Reporting
\* ------------------------------------------------------------------------
\* One line of standard output.
Line(kind, file, line, col, rule, func, count) ==
    [kind |-> kind, file |-> file, line |-> line, col |-> col, rule |-> rule,
     func |-> func, count |-> count]
Text(kind) == Line(kind, "", 0, 0, "", "", 0)

RECURSIVE print_findings(_)
print_findings(fs) ==
    IF fs = <<>> THEN <<>>
    ELSE LET f == Head(fs) IN
         << Line("finding", f.file, f.line, f.col, f.rule, f.async_func, 0),
            Line("fix", "", 0, 0, f.rule, "", 0) >>
         \o print_findings(Tail(fs))

\* A Counter that counts every element under every key.
Count_every_key(keys, key) == Len(keys)

\* Counter(keys)[key]
Count(keys, key) == Cardinality({ k \in 1..Len(keys) : keys[k] = key })

RuleIds == [k \in 1..Len(rules) |-> rules[k].id]

RECURSIVE ByRuleLines(_, _)
\* for rule_id, count in sorted(by_rule.items()); the rule ids sort in
\* the order of the registry.
ByRuleLines(fs, k) ==
    IF k > Len(RuleIds) THEN <<>>
    ELSE LET by_rule == [i \in 1..Len(fs) |-> fs[i].rule]
             n == Count(by_rule, RuleIds[k])
         IN (IF n > 0 THEN << Line("by_rule", "", 0, 0, RuleIds[k], "", n) >>
             ELSE <<>>)
            \o ByRuleLines(fs, k + 1)

RECURSIVE ByFileLines(_, _)
\* for filepath, count in sorted(by_file.items())
ByFileLines(fs, k) ==
    IF k > Len(PathOrder) THEN <<>>
    ELSE LET by_file == [i \in 1..Len(fs) |-> fs[i].file]
             n == Count(by_file, PathOrder[k])
         IN (IF n > 0 THEN << Line("by_file", PathOrder[k], 0, 0, "", "", n) >>
             ELSE <<>>)
            \o ByFileLines(fs, k + 1)

print_summary(fs) ==
    IF fs = <<>> THEN << Text("Summary: No blocking call issues found.") >>
    ELSE << Text("--- Summary ---"),
            Line("Total issues", "", 0, 0, "", "", Len(fs)),
            Text("By rule:") >>
         \o ByRuleLines(fs, 1)
         \o << Text("By file:") >>
         \o ByFileLines(fs, 1)

\* ------------------------------------------------------------------------
\* One run of main()
\* ------------------------------------------------------------------------
VARIABLES
    paths,          \* args.paths
    exit_zero,      \* args.exit_zero
    summary,        \* args.summary
    content,        \* what each Python file of the file system holds
    pc,             \* where main() is
    next_path,      \* index of the next raw_path of the outer loop
    pending,        \* files the current iter_python_files has still to yield
    py_file,        \* the file of the last check_file call ("" before it)
    findings,       \* what the last check_file call returned
    checked,        \* the files check_file has returned for, in order
    returned,       \* what check_file returned for each of them
    all_findings,
    stdout,
    stderr,
    exit_code       \* -1 while the process runs

vars == << paths, exit_zero, summary, content, rules, pc, next_path, pending, py_file,
           findings, checked, returned, all_findings, stdout, stderr, exit_code >>

\* A file holding only synchronous code, with a blocking call in it.
SyncOnlyTree ==
    << WithParent(FunctionDef, 0), WithParent(Call(NameFunc("open")), 1) >>
\* async def fetch(): requests.get(url); time.sleep(1)
FetchTree ==
    << WithParent(AsyncFunctionDef("fetch"), 0),
       WithParent(Call(AttributeFunc(NameExpr("requests"), "get")), 1),
       WithParent(Call(AttributeFunc(NameExpr("time"), "sleep")), 1) >>

\* The contents of the files of a run over several paths.
Catalog ==
    { Content("ok", SyncOnlyTree), Content("ok", FetchTree),
      Content("OSError", <<>>), Content("SyntaxError", <<>>),
      Content("Uncaught", <<>>) }

\* A file no path of the run leads to: the run never reads it.
Unread == Content("ok", <<>>)

ArgLists == UNION { [1..n -> Paths] : n \in 1..MaxPaths }

RECURSIVE FilesOf(_)
\* Every file the paths lead to, in the order main() meets them.
FilesOf(ps) ==
    IF ps = <<>> THEN <<>>
    ELSE iter_python_files(Head(ps)).files \o FilesOf(Tail(ps))

Start ==
    /\ pc = "loop"
    /\ next_path = 1
    /\ pending = <<>>
    /\ py_file = ""
    /\ findings = <<>>
    /\ checked = <<>>
    /\ returned = <<>>
    /\ all_findings = <<>>
    /\ stdout = <<>>
    /\ stderr = <<>>
    /\ exit_code = -1

\* Either one file holding any tree within the bounds, or any list of
\* paths over files holding the catalog's contents.
Init ==
    /\ Start
    /\ rules = RULES
    /\ \/ /\ paths = <<"a.py">>
          /\ exit_zero = FALSE
          /\ summary = FALSE
          /\ \E bound \in { <<MaxNodes, CoreLabels>>, <<MaxRichNodes, NodeLabels>> } :
             \E n \in 0..bound[1] :
             \E parents \in [1..n -> 0..n] :
                /\ IsPreorder(parents, n)
                /\ \E labels \in [1..n -> bound[2]] :
                      content = [f \in PyFiles |->
                                   IF f = "a.py"
                                   THEN Content("ok", MakeTree(parents, labels, n))
                                   ELSE Unread]
       \/ /\ paths \in ArgLists
          /\ exit_zero \in BOOLEAN
          /\ summary \in BOOLEAN
          /\ \E c \in [PyFiles -> Catalog] :
                content = [f \in PyFiles |->
                             IF f \in Range(FilesOf(paths)) THEN c[f] ELSE Unread]

\* for raw_path in args.paths: start iter_python_files(raw_path)
IterPythonFiles ==
    /\ pc = "loop"
    /\ pending = <<>>
    /\ next_path <= Len(paths)
    /\ LET it == iter_python_files(paths[next_path]) IN
       /\ pending' = it.files
       /\ stderr' = stderr \o it.err
    /\ next_path' = next_path + 1
    /\ UNCHANGED << paths, exit_zero, summary, content, rules, pc, py_file,
                    findings, checked, returned, all_findings, stdout,
                    exit_code >>

\* The inner loop with check_file's `findings` list hoisted out of the
\* function: every call appends to the list the call before returned.
AnalyseFile_shared_findings ==
    /\ pc = "loop"
    /\ pending # <<>>
    /\ \E r \in { check_file(Head(pending), content[Head(pending)]) } :
       /\ py_file' = Head(pending)
       /\ stderr' = stderr \o r.err
       /\ IF r.raised
          THEN /\ pc' = "crashed"
               /\ exit_code' = 1
               /\ UNCHANGED << pending, findings, checked, returned,
                               all_findings, stdout >>
          ELSE /\ findings' = findings \o r.findings
               /\ checked' = Append(checked, Head(pending))
               /\ returned' = Append(returned, findings \o r.findings)
               /\ all_findings' = all_findings \o findings \o r.findings
               /\ stdout' = stdout \o print_findings(findings \o r.findings)
               /\ pending' = Tail(pending)
               /\ UNCHANGED << pc, exit_code >>
    /\ UNCHANGED << paths, exit_zero, summary, content, rules, next_path >>

\* The inner loop with the summary printed inside it, after the findings
\* of every file.
AnalyseFile_summary_per_file ==
    /\ pc = "loop"
    /\ pending # <<>>
    /\ \E r \in { check_file(Head(pending), content[Head(pending)]) } :
       /\ py_file' = Head(pending)
       /\ stderr' = stderr \o r.err
       /\ IF r.raised
          THEN /\ pc' = "crashed"
               /\ exit_code' = 1
               /\ UNCHANGED << pending, findings, checked, returned,
                               all_findings, stdout >>
          ELSE /\ findings' = r.findings
               /\ checked' = Append(checked, Head(pending))
               /\ returned' = Append(returned, r.findings)
               /\ all_findings' = all_findings \o r.findings
               /\ stdout' = stdout \o print_findings(r.findings)
                              \o (IF summary
                                  THEN print_summary(all_findings \o r.findings)
                                  ELSE <<>>)
               /\ pending' = Tail(pending)
               /\ UNCHANGED << pc, exit_code >>
    /\ UNCHANGED << paths, exit_zero, summary, content, rules, next_path >>

\* The inner loop skipping the files already analysed in this run.
AnalyseFile_skip_seen ==
    /\ pc = "loop"
    /\ pending # <<>>
    /\ IF Head(pending) \in Range(checked)
       THEN /\ pending' = Tail(pending)
            /\ UNCHANGED << py_file, stderr, pc, exit_code, findings, checked,
                            returned, all_findings, stdout >>
       ELSE \E r \in { check_file(Head(pending), content[Head(pending)]) } :
            /\ py_file' = Head(pending)
            /\ stderr' = stderr \o r.err
            /\ IF r.raised
               THEN /\ pc' = "crashed"
                    /\ exit_code' = 1
                    /\ UNCHANGED << pending, findings, checked, returned,
                                    all_findings, stdout >>
               ELSE /\ findings' = r.findings
                    /\ checked' = Append(checked, Head(pending))
                    /\ returned' = Append(returned, r.findings)
                    /\ all_findings' = all_findings \o r.findings
                    /\ stdout' = stdout \o print_findings(r.findings)
                    /\ pending' = Tail(pending)
                    /\ UNCHANGED << pc, exit_code >>
    /\ UNCHANGED << paths, exit_zero, summary, content, rules, next_path >>

\* The body of the inner loop: check_file, extend, print_findings.  An
\* exception check_file does not catch leaves main() too: the interpreter
\* prints the traceback and the process exits with code 1.
AnalyseFile ==
    /\ pc = "loop"
    /\ pending # <<>>
    /\ \E r \in { check_file(Head(pending), content[Head(pending)]) } :
       /\ py_file' = Head(pending)
       /\ stderr' = stderr \o r.err
       /\ IF r.raised
          THEN /\ pc' = "crashed"
               /\ exit_code' = 1
               /\ UNCHANGED << pending, findings, checked, returned,
                               all_findings, stdout >>
          ELSE /\ findings' = r.findings
               /\ checked' = Append(checked, Head(pending))
               /\ returned' = Append(returned, r.findings)
               /\ all_findings' = all_findings \o r.findings
               /\ stdout' = stdout \o print_findings(r.findings)
               /\ pending' = Tail(pending)
               /\ UNCHANGED << pc, exit_code >>
    /\ UNCHANGED << paths, exit_zero, summary, content, rules, next_path >>

\* The summary printed only when --exit-zero is not given.
PrintSummary_unless_exit_zero ==
    /\ pc = "loop"
    /\ pending = <<>>
    /\ next_path > Len(paths)
    /\ stdout' = IF summary /\ ~exit_zero
                 THEN stdout \o print_summary(all_findings)
                 ELSE stdout
    /\ pc' = "final"
    /\ UNCHANGED << paths, exit_zero, summary, content, rules, next_path,
                    pending, py_file, findings, checked, returned,
                    all_findings, stderr, exit_code >>

\* if args.summary: print_summary(all_findings)
PrintSummary ==
    /\ pc = "loop"
    /\ pending = <<>>
    /\ next_path > Len(paths)
    /\ stdout' = IF summary THEN stdout \o print_summary(all_findings) ELSE stdout
    /\ pc' = "final"
    /\ UNCHANGED << paths, exit_zero, summary, content, rules, next_path,
                    pending, py_file, findings, checked, returned,
                    all_findings, stderr, exit_code >>

\* if not all_findings: print("No blocking call issues detected.")
NoIssuesLine ==
    /\ pc = "final"
    /\ stdout' = IF all_findings = <<>>
                 THEN Append(stdout, Text("No blocking call issues detected."))
                 ELSE stdout
    /\ pc' = "exit"
    /\ UNCHANGED << paths, exit_zero, summary, content, rules, next_path,
                    pending, py_file, findings, checked, returned,
                    all_findings, stderr, exit_code >>

\* if all_findings and not args.exit_zero: sys.exit(1)
Exit ==
    /\ pc = "exit"
    /\ exit_code' = IF all_findings # <<>> /\ ~exit_zero THEN 1 ELSE 0
    /\ pc' = "done"
    /\ UNCHANGED << paths, exit_zero, summary, content, rules, next_path,
                    pending, py_file, findings, checked, returned,
                    all_findings, stdout, stderr >>

Next ==
    \/ IterPythonFiles
    \/ AnalyseFile
    \/ PrintSummary
    \/ NoIssuesLine
    \/ Exit

Spec == Init /\ [][Next]_vars

\* A registry in which two rules match one node: the shipped rules and a
\* second rule for time.sleep (RULES is an ordinary list; rules are added
\* by appending a Rule to it).
ExtendedRules ==
    RULES \o << Rule("ASYNC010", "_call_matches", <<"time", "sleep">>) >>

\* One file holding any tree over the core labels, analysed with the
\* extended registry.
InitRegistry ==
    /\ Start
    /\ rules = ExtendedRules
    /\ paths = <<"a.py">>
    /\ exit_zero = FALSE
    /\ summary = FALSE
    /\ \E n \in 0..MaxNodes :
       \E parents \in [1..n -> 0..n] :
          /\ IsPreorder(parents, n)
          /\ \E labels \in [1..n -> CoreLabels] :
                content = [f \in PyFiles |->
                             IF f = "a.py"
                             THEN Content("ok", MakeTree(parents, labels, n))
                             ELSE Unread]

SpecRegistry == InitRegistry /\ [][Next]_vars

\* The fields of a node of each class that hold child nodes (Module is
\* the class of the root).
ChildFields(kind) ==
    CASE kind \in {"AsyncFunctionDef", "FunctionDef"} -> {"args", "body", "decorator_list"}
      [] kind = "ClassDef" -> {"bases", "body", "decorator_list"}
      [] kind = "AsyncWith" -> {"items", "body"}
      [] kind = "withitem" -> {"context_expr"}
      [] kind = "arguments" -> {"defaults"}
      [] kind = "Await" -> {"value"}
      [] kind \in {"Module", "Call", "Other"} -> {"body"}
      [] kind \in {"Name", "Attribute"} -> {}

\* The tree is one ast.parse can build: every node sits in a field its
\* parent has, items hold withitems and args the one arguments node.
WellFormed(tree) ==
    \A i \in Nodes(tree) :
       LET p == tree[i].parent
           parent_kind == IF p = 0 THEN "Module" ELSE tree[p].kind
       IN /\ tree[i].field \in ChildFields(parent_kind)
          /\ (tree[i].field = "items") <=> (tree[i].kind = "withitem")
          /\ (tree[i].field = "args") <=> (tree[i].kind = "arguments")
          /\ tree[i].field \in {"args", "value", "context_expr"} =>
                \A j \in Nodes(tree) :
                   (tree[j].parent = p /\ tree[j].field = tree[i].field) => j = i

\* open() as the context expression of `async with`, and elsewhere.
WithLabels ==
    { AsyncFunctionDef("f"), AsyncWith, withitem,
      InField(Call(NameFunc("open")), "context_expr"),
      Call(NameFunc("open")), Name("open") }
\* time.sleep() as decorator, base class and default value of a nested
\* definition, and in a body.
DefinitionLabels ==
    { AsyncFunctionDef("f"), FunctionDef, ClassDef, arguments,
      Call(AttributeFunc(NameExpr("time"), "sleep")),
      InField(Call(AttributeFunc(NameExpr("time"), "sleep")), "decorator_list"),
      InField(Call(AttributeFunc(NameExpr("time"), "sleep")), "bases"),
      InField(Call(AttributeFunc(NameExpr("time"), "sleep")), "defaults") }
\* .read(), .write() and .readlines() awaited and not, on a name and on
\* another expression, and the attribute read without a call.
AwaitLabels ==
    { AsyncFunctionDef("f"), Await,
      InField(Call(AttributeFunc(NameExpr("fh"), "read")), "value"),
      InField(Call(AttributeFunc(OtherExpr, "read")), "value"),
      InField(Call(AttributeFunc(NameExpr("fh"), "write")), "value"),
      InField(Call(AttributeFunc(NameExpr("fh"), "readlines")), "value"),
      Call(AttributeFunc(NameExpr("fh"), "read")),
      Attribute("read") }

\* One file holding any well-formed tree over one of the three label
\* sets, analysed with the shipped rules.
InitSyntax ==
    /\ Start
    /\ rules = RULES
    /\ paths = <<"a.py">>
    /\ exit_zero = FALSE
    /\ summary = FALSE
    /\ \E Labels \in { WithLabels, DefinitionLabels, AwaitLabels } :
       \E n \in 0..MaxNodes :
       \E parents \in [1..n -> 0..n] :
          /\ IsPreorder(parents, n)
          /\ \E labels \in [1..n -> Labels] :
                /\ WellFormed(MakeTree(parents, labels, n))
                /\ content = [f \in PyFiles |->
                                IF f = "a.py"
                                THEN Content("ok", MakeTree(parents, labels, n))
                                ELSE Unread]

SpecSyntax == InitSyntax /\ [][Next]_vars

\* ------------------------------------------------------------------------
\* Vocabulary of the properties
\* ------------------------------------------------------------------------
\* check_file has just returned: main() is in its loop and `findings`
\* holds what the call returned for py_file.
Analysed == py_file # "" /\ pc = "loop"
\* The tree of the file last analysed.
Tree == content[py_file].tree
Terminated == pc \in {"done", "crashed"}

IsAsyncDef(t, n) == t[n].kind = "AsyncFunctionDef"
IsSyncDef(t, n) == t[n].kind \in {"FunctionDef", "ClassDef"}
\* The nodes strictly above n, the Module root left out.
Above(t, n) == AncestorsOrSelf(t, n) \ {0, n}
\* The async functions that enclose n.
AsyncAbove(t, n) == { a \in Above(t, n) : IsAsyncDef(t, a) }
\* The nearest enclosing async function of n (the nodes are numbered in
\* source order, so the deepest ancestor has the greatest number).
Nearest(t, n) == CHOOSE a \in AsyncAbove(t, n) : \A b \in AsyncAbove(t, n) : b <= a
\* n is, or lies inside, a synchronous def or class nested in F.
InSyncContext(t, F, n) ==
    \E d \in AncestorsOrSelf(t, n) \ {0} : IsSyncDef(t, d) /\ F \in Above(t, d)
\* n lies in F with no other definition (sync or async, or class) between.
DirectlyIn(t, F, n) ==
    /\ F \in AsyncAbove(t, n)
    /\ Nearest(t, n) = F
    /\ ~InSyncContext(t, F, n)
\* The rules (by position in the registry) whose matcher accepts node n.
Matching(t, n) == { k \in 1..Len(rules) : matcher(rules[k], t[n]) }
\* The positions in `findings` of the findings for node n and rule k.
FindingsOf(t, n, k) ==
    { i \in 1..Len(findings) :
        findings[i].line = lineno(t, n) /\ findings[i].rule = rules[k].id }

\* ------------------------------------------------------------------------
\* Properties
\* ------------------------------------------------------------------------
\* C1: a blocking call written in an async function G that is nested in
\* another async function F yields exactly one Finding per matching rule,
\* attributed to G and not to F.
C1_NestedAsyncAttributedOnce ==
    Analysed =>
      \A n \in Nodes(Tree) : \A G \in AsyncAbove(Tree, n) :
         (DirectlyIn(Tree, G, n) /\ AsyncAbove(Tree, G) # {}) =>
            \A k \in Matching(Tree, n) :
               /\ Cardinality(FindingsOf(Tree, n, k)) = 1
               /\ \A i \in FindingsOf(Tree, n, k) :
                     findings[i].async_func = Tree[G].name

\* C2: a node inside a synchronous def or class nested in an async
\* function, with no async function between that definition and the node,
\* yields no Finding at all.
C2_NoFindingInSyncContext ==
    Analysed =>
      \A n \in Nodes(Tree) : \A F \in AsyncAbove(Tree, n) :
         (\E d \in AncestorsOrSelf(Tree, n) \ {0} :
             /\ IsSyncDef(Tree, d)
             /\ F \in Above(Tree, d)
             /\ \A a \in AsyncAbove(Tree, n) : a < d)
         => \A i \in 1..Len(findings) : findings[i].line # lineno(Tree, n)

\* A blocking call in a sync def nested in an async function has been
\* analysed, and so has one in a sync def nested two async levels deep.
C2_Witness ==
    /\ Analysed
    /\ \E n \in Nodes(Tree) : \E F \in AsyncAbove(Tree, n) :
          /\ IsSyncDef(Tree, Tree[n].parent)
          /\ Tree[Tree[n].parent].parent = F
          /\ AsyncAbove(Tree, F) # {}
          /\ Matching(Tree, n) # {}
          /\ findings = <<>>

\* C3: a file whose tree holds no async function definition yields no
\* findings, whatever blocking calls its synchronous code makes.
C3_NoAsyncNoFindings ==
    (Analysed /\ content[py_file].status = "ok"
       /\ \A n \in Nodes(Tree) : ~IsAsyncDef(Tree, n))
    => findings = <<>>

\* A file with a blocking call at module level and one in a method of a
\* class, and no async function, has been analysed.
C3_Witness ==
    /\ Analysed
    /\ content[py_file].status = "ok"
    /\ \A n \in Nodes(Tree) : ~IsAsyncDef(Tree, n)
    /\ \E n \in Nodes(Tree) : Matching(Tree, n) # {} /\ Tree[n].parent = 0
    /\ \E n \in Nodes(Tree) :
          /\ Matching(Tree, n) # {}
          /\ Tree[n].parent # 0
          /\ Tree[Tree[n].parent].kind = "FunctionDef"
          /\ Tree[Tree[n].parent].parent # 0
          /\ Tree[Tree[Tree[n].parent].parent].kind = "ClassDef"
    /\ findings = <<>>

\* C4: a run that got past argument parsing exits with code 1 exactly
\* when the aggregate findings list is non-empty and --exit-zero is not
\* set, and with code 0 otherwise.
C4_ExitCode ==
    Terminated =>
      exit_code = (IF all_findings # <<>> /\ ~exit_zero THEN 1 ELSE 0)

\* The files check_file was called for.
Attempted == Range(checked) \cup (IF py_file = "" THEN {} ELSE {py_file})
\* The files among them that could not be read or parsed.
Failed == { f \in Attempted : content[f].status # "ok" }

\* C5: the exit code does not depend on read or parse failures: a run in
\* which files failed exits with the code its findings and --exit-zero
\* alone decide, and a run in which every file failed exits 0.
C5_ExitCodeIgnoresFailures ==
    (Terminated /\ Failed # {}) =>
      /\ exit_code = (IF all_findings = <<>> \/ exit_zero THEN 0 ELSE 1)
      /\ (Failed = Attempted => exit_code = 0)

\* C6: no failure while analysing one file aborts the run: when the
\* process has ended, check_file has returned for every file the paths
\* lead to and the findings of each are on standard output.
C6_EveryFileAnalysed ==
    Terminated =>
      /\ checked = FilesOf(paths)
      /\ \A i \in 1..Len(all_findings) :
            \E j \in 1..Len(stdout) :
               /\ stdout[j].kind = "finding"
               /\ stdout[j].file = all_findings[i].file
               /\ stdout[j].line = all_findings[i].line
               /\ stdout[j].rule = all_findings[i].rule

\* C7: every Finding carries the line and column of a node of the file
\* that is a call expression accepted by the matcher of the Finding's rule.
C7_FindingAtMatchingCall ==
    Analysed =>
      \A i \in 1..Len(findings) :
         \E n \in Nodes(Tree) :
            /\ lineno(Tree, n) = findings[i].line
            /\ col_offset(Tree, n) = findings[i].col
            /\ Tree[n].kind = "Call"
            /\ \E k \in 1..Len(rules) :
                  rules[k].id = findings[i].rule /\ matcher(rules[k], Tree[n])

\* Findings of two different rules, at two different positions, have been
\* returned for one file.
C7_Witness ==
    /\ Analysed
    /\ \E i, j \in 1..Len(findings) :
          /\ findings[i].rule # findings[j].rule
          /\ findings[i].line # findings[j].line

\* C8: the async_func of every Finding is the name of an async function
\* definition of the file whose subtree holds the triggering node.
C8_AsyncFuncEnclosesNode ==
    Analysed =>
      \A i \in 1..Len(findings) :
         \E n \in Nodes(Tree) :
            /\ lineno(Tree, n) = findings[i].line
            /\ \E a \in AsyncAbove(Tree, n) : Tree[a].name = findings[i].async_func

\* A Finding has been returned for a call that sits in its async function
\* below a node that is no definition, beside a call outside any async
\* function.
C8_Witness ==
    /\ Analysed
    /\ Len(findings) = 1
    /\ \E n \in Nodes(Tree) :
          /\ lineno(Tree, n) = findings[1].line
          /\ Tree[Tree[n].parent].kind = "Other"
          /\ Cardinality(AsyncAbove(Tree, n)) = 1
    /\ \E m \in Nodes(Tree) : Matching(Tree, m) # {} /\ AsyncAbove(Tree, m) = {}

\* C9: for every async function F, every node of its subtree that is not
\* inside a nested sync def or class, and every rule whose matcher accepts
\* the node, there is a Finding with the node's position, F's name and
\* that rule.
C9_NoMatchMissed ==
    Analysed =>
      \A n \in Nodes(Tree) : \A F \in AsyncAbove(Tree, n) :
         ~InSyncContext(Tree, F, n) =>
            \A k \in Matching(Tree, n) :
               \E i \in 1..Len(findings) :
                  /\ findings[i].line = lineno(Tree, n)
                  /\ findings[i].col = col_offset(Tree, n)
                  /\ findings[i].async_func = Tree[F].name
                  /\ findings[i].rule = rules[k].id
                  /\ findings[i].file = py_file

\* async def fetch(): requests.get(url); time.sleep(1) has been analysed
\* and gave its two findings, both attributed to fetch.
C9_Witness ==
    /\ Analysed
    /\ Tree = FetchTree
    /\ findings = << Finding(py_file, 2, 4, "fetch", rules[1]),
                     Finding(py_file, 3, 4, "fetch", rules[5]) >>

\* The (node, rule) pairs that matched: the node lies in an async function
\* outside every sync def or class nested in it, and the rule accepts it.
MatchedPairs(t) ==
    { p \in Nodes(t) \X (1..Len(rules)) :
        /\ p[2] \in Matching(t, p[1])
        /\ \E F \in AsyncAbove(t, p[1]) : ~InSyncContext(t, F, p[1]) }

\* C10: the number of Findings of a file is the number of distinct
\* (node, rule) pairs that matched: no pair gives two findings attributed
\* to two enclosing async functions.
C10_OneFindingPerMatchedPair ==
    Analysed =>
      /\ Len(findings) = Cardinality(MatchedPairs(Tree))
      /\ \A i, j \in 1..Len(findings) :
            (findings[i].line = findings[j].line
               /\ findings[i].rule = findings[j].rule) => i = j

\* The positions in `findings` of the findings at the position of node n.
FindingsAt(t, n) ==
    { i \in 1..Len(findings) :
        findings[i].line = lineno(t, n) /\ findings[i].col = col_offset(t, n) }

SkippedPaths ==
    { paths[i] : i \in { k \in 1..(next_path - 1) :
                           /\ ~(is_file(paths[k]) /\ suffix(paths[k]) = ".py")
                           /\ ~is_dir(paths[k]) } }

\* C13: every positional path that is neither a .py file nor a directory
\* (a path that does not exist, or a file with another suffix) is skipped
\* with a warning on standard error and yields no file to analyse.
C13_SkippedWithWarning ==
    \A p \in SkippedPaths :
       /\ \E j \in 1..Len(stderr) : stderr[j] = <<"WARNING: not a file or directory", p>>
       /\ p \notin Range(checked)
       /\ p \notin Range(pending)

\* The place of a path in the ascending order of paths.
Rank(f) == CHOOSE i \in 1..Len(PathOrder) : PathOrder[i] = f
\* The directory a file lies in ("" for a file of the working directory).
ParentDir(f) == IF f \in {"d/b.py", "d/c.py"} THEN "d" ELSE ""
\* The Python files one positional argument stands for, in ascending path
\* order: the argument itself, or the files below it.
FilesUnder(p) ==
    LET In(f) == f \in PyFiles /\ (f = p \/ ParentDir(f) = p)
    IN SelectSeq(PathOrder, In)
RECURSIVE ArgumentOrder(_)
\* The files of the first k positional arguments, argument by argument.
ArgumentOrder(k) ==
    IF k = 0 THEN <<>> ELSE ArgumentOrder(k - 1) \o FilesUnder(paths[k])

\* C14 as claimed: over a whole run the files are analysed in sorted path
\* order, of any two analysed files the one analysed first being the
\* smaller path, whatever the positional arguments.
C14_AnalysedInSortedOrder ==
    \A i, j \in 1..Len(checked) :
       (i < j /\ checked[i] # checked[j]) => Rank(checked[i]) < Rank(checked[j])

\* C14 amended: the files are analysed one at a time in the order of the
\* positional arguments, the files of one directory argument in sorted
\* path order: the files analysed so far and those still to come of the
\* current argument are the files of the arguments met so far, argument
\* by argument.
C14_AnalysedInArgumentOrder ==
    checked \o pending = ArgumentOrder(next_path - 1)

\* A directory with two files and then a file of a smaller path have been
\* analysed.
C14_Witness ==
    /\ paths = <<"d", "a.py">>
    /\ checked = <<"d/b.py", "d/c.py", "a.py">>

\* The per-finding report: the diagnostic lines of standard output, in
\* the order printed.
Diagnostics == LET IsFinding(l) == l.kind = "finding" IN SelectSeq(stdout, IsFinding)

\* C15: the per-finding report is in file-then-line order: the findings
\* of one file are contiguous, and within one file they appear in
\* non-decreasing line order.
C15_FileThenLineOrder ==
    /\ \A i, j, k \in 1..Len(Diagnostics) :
          (i < j /\ j < k /\ Diagnostics[i].file = Diagnostics[k].file)
             => Diagnostics[j].file = Diagnostics[i].file
    /\ \A i, j \in 1..Len(Diagnostics) :
          (i < j /\ Diagnostics[i].file = Diagnostics[j].file)
             => Diagnostics[i].line <= Diagnostics[j].line

\* The lines print_summary prints, and the two with which it starts.
SummaryKinds ==
    { "Summary: No blocking call issues found.", "--- Summary ---",
      "Total issues", "By rule:", "by_rule", "By file:", "by_file" }
SummaryStarts(out) ==
    { i \in 1..Len(out) :
        out[i].kind \in {"Summary: No blocking call issues found.", "--- Summary ---"} }

\* C16: in a run with --summary the summary comes after the diagnostics
\* of every analysed file: once it has started every file the paths lead
\* to has been analysed and its findings printed, no per-finding line
\* follows a line of the summary, and the summary is printed at most once.
C16_SummaryAfterDiagnostics ==
    summary =>
      /\ Cardinality(SummaryStarts(stdout)) <= 1
      /\ \A i, j \in 1..Len(stdout) :
            (i < j /\ stdout[i].kind \in SummaryKinds)
               => stdout[j].kind \notin {"finding", "fix"}
      /\ SummaryStarts(stdout) # {} =>
            /\ checked = ArgumentOrder(Len(paths))
            /\ Len(Diagnostics) = Len(all_findings)

\* A run with --summary over two files with findings has ended, the
\* summary printed.
C16_Witness ==
    /\ pc = "done"
    /\ summary
    /\ \E i, j \in 1..Len(all_findings) : all_findings[i].file # all_findings[j].file
    /\ SummaryStarts(stdout) # {}

\* The places of the final line on standard output.
NoIssuesLines ==
    { i \in 1..Len(stdout) : stdout[i].kind = "No blocking call issues detected." }

\* C17: when the run has ended, the line "No blocking call issues
\* detected." has been printed exactly when the aggregate findings list of
\* the run is empty, and it is the last line, after all per-file output.
C17_NoIssuesLineIffNoFindings ==
    Terminated =>
      /\ (NoIssuesLines # {}) <=> (all_findings = <<>>)
      /\ NoIssuesLines \subseteq {Len(stdout)}

RECURSIVE OutputOf(_)
\* What analysing these files in turn prints and collects, up to the
\* first file whose analysis raises: a function of the files and their
\* contents alone.
OutputOf(files) ==
    IF files = <<>> THEN [out |-> <<>>, fs |-> <<>>, raised |-> FALSE]
    ELSE LET r == check_file(Head(files), content[Head(files)]) IN
         IF r.raised THEN [out |-> <<>>, fs |-> <<>>, raised |-> TRUE]
         ELSE LET rest == OutputOf(Tail(files)) IN
              [out |-> print_findings(r.findings) \o rest.out,
               fs |-> r.findings \o rest.fs,
               raised |-> rest.raised]

\* The standard output of a whole run as a function of the paths, the
\* files and --summary; --exit-zero is not read.
OutputOfRun ==
    LET run == OutputOf(ArgumentOrder(Len(paths))) IN
    IF run.raised THEN run.out
    ELSE run.out
         \o (IF summary THEN print_summary(run.fs) ELSE <<>>)
         \o (IF run.fs = <<>>
             THEN << Text("No blocking call issues detected.") >>
             ELSE <<>>)

\* C18: --exit-zero changes only the exit code: what a run has printed
\* when it ends is decided by the paths, the files and --summary alone,
\* so two runs that differ only in --exit-zero print the same diagnostics
\* and summary.
C18_OutputIgnoresExitZero ==
    Terminated => stdout = OutputOfRun

\* A run with --exit-zero and --summary that found issues has ended with
\* exit code 0, its diagnostics and summary printed.
C18_Witness ==
    /\ pc = "done"
    /\ exit_zero
    /\ summary
    /\ all_findings # <<>>
    /\ exit_code = 0
    /\ Diagnostics # <<>>
    /\ SummaryStarts(stdout) # {}

\* The lines of one kind on standard output, in the order printed.
LinesOfKind(kind) == LET Is(l) == l.kind = kind IN SelectSeq(stdout, Is)
RECURSIVE SumOfCounts(_)
SumOfCounts(lines) ==
    IF lines = <<>> THEN 0 ELSE Head(lines).count + SumOfCounts(Tail(lines))
\* The place of a rule id in the ascending order of rule ids.
RuleRank(id) == CHOOSE k \in 1..Len(rules) : rules[k].id = id
\* print_summary has been called on a non-empty aggregate list.
SummaryOfFindingsPrinted ==
    summary /\ all_findings # <<>> /\ pc \in {"final", "exit", "done"}

\* C19: for a non-empty aggregate findings list print_summary reports a
\* total equal to the number of findings, per-rule counts that sum to the
\* total and per-file counts that sum to the total, each count that of
\* its key, with the rule ids and the file paths in ascending order and
\* each listed once.
C19_SummaryCounts ==
    SummaryOfFindingsPrinted =>
      LET total == LinesOfKind("Total issues")
          by_rule == LinesOfKind("by_rule")
          by_file == LinesOfKind("by_file")
      IN /\ Len(total) = 1
         /\ total[1].count = Len(all_findings)
         /\ SumOfCounts(by_rule) = Len(all_findings)
         /\ SumOfCounts(by_file) = Len(all_findings)
         /\ \A i, j \in 1..Len(by_rule) :
               i < j => RuleRank(by_rule[i].rule) < RuleRank(by_rule[j].rule)
         /\ \A i, j \in 1..Len(by_file) :
               i < j => Rank(by_file[i].file) < Rank(by_file[j].file)
         /\ \A i \in 1..Len(by_rule) :
               by_rule[i].count =
                  Cardinality({ k \in 1..Len(all_findings) :
                                  all_findings[k].rule = by_rule[i].rule })
         /\ \A i \in 1..Len(by_file) :
               by_file[i].count =
                  Cardinality({ k \in 1..Len(all_findings) :
                                  all_findings[k].file = by_file[i].file })

\* The summary of a run with findings of two rules in two files, the
\* file analysed first being the greater path, has been printed.
C19_Witness ==
    /\ SummaryOfFindingsPrinted
    /\ Len(LinesOfKind("by_rule")) >= 2
    /\ Len(LinesOfKind("by_file")) >= 2
    /\ Rank(all_findings[1].file) > Rank(all_findings[Len(all_findings)].file)

\* The async function definitions of tree t.
AsyncDefs(t) == { n \in Nodes(t) : IsAsyncDef(t, n) }

\* C20: _collect_async_funcs yields every async function definition of
\* the tree exactly once, at any depth and inside any definition, and
\* check_file analyses each as its own unit exactly once: a matching node
\* gets one Finding per rule for every async function above it that has
\* no sync def or class between, under that function's name.
C20_EveryAsyncFuncOnce ==
    (Analysed /\ content[py_file].status = "ok") =>
      LET funcs == _collect_async_funcs(Tree) IN
      /\ Range(funcs) = AsyncDefs(Tree)
      /\ Len(funcs) = Cardinality(AsyncDefs(Tree))
      /\ \A n \in Nodes(Tree) : \A k \in Matching(Tree, n) :
         \A name \in { Tree[F].name : F \in AsyncDefs(Tree) } :
            Cardinality({ i \in FindingsOf(Tree, n, k) :
                            findings[i].async_func = name })
            = Cardinality({ F \in AsyncAbove(Tree, n) :
                              Tree[F].name = name /\ ~InSyncContext(Tree, F, n) })

\* A file has been analysed in which an async function lies in a sync def
\* or class that lies in another async function, and the blocking call in
\* the inner one is reported once, under the inner function's name.
C20_Witness ==
    /\ Analysed
    /\ Len(Tree) = 4
    /\ IsAsyncDef(Tree, 1)
    /\ IsSyncDef(Tree, 2) /\ Tree[2].parent = 1
    /\ IsAsyncDef(Tree, 3) /\ Tree[3].parent = 2
    /\ Tree[4].parent = 3
    /\ Tree[1].name # Tree[3].name
    /\ Len(findings) = 1
    /\ findings[1].async_func = Tree[3].name
    /\ findings[1].line = 4

\* C21: for every async function F, _nodes_inside_sync_context(F) is
\* exactly the set of nodes of F's subtree that are, or lie below, a
\* synchronous def or class nested in F; F itself and the nodes with no
\* such definition between them and F are not in it.
C21_ExcludedSetIsSyncContext ==
    Analysed =>
      \A F \in AsyncDefs(Tree) :
         _nodes_inside_sync_context(Tree, F)
         = { n \in Nodes(Tree) :
               \E d \in AncestorsOrSelf(Tree, n) \ {0} :
                  IsSyncDef(Tree, d) /\ F \in Above(Tree, d) }

\* A file has been analysed in which an async function holds a class that
\* holds a def, and a node that is in neither.
C21_Witness ==
    /\ Analysed
    /\ \E F \in AsyncDefs(Tree) :
          /\ Cardinality(_nodes_inside_sync_context(Tree, F)) = 2
          /\ \E c, d \in _nodes_inside_sync_context(Tree, F) :
                /\ Tree[c].kind = "ClassDef"
                /\ Tree[d].kind = "FunctionDef"
                /\ Tree[d].parent = c
          /\ \E n \in Nodes(Tree) :
                /\ Tree[n].parent = F
                /\ n \notin _nodes_inside_sync_context(Tree, F)

RECURSIVE Flatten(_)
\* The lists of a list, end to end.
Flatten(lists) ==
    IF lists = <<>> THEN <<>> ELSE Head(lists) \o Flatten(Tail(lists))

\* C22: when reading or parsing a file fails, check_file returns an empty
\* list for it, and the aggregate findings list stays what it was; a file
\* that succeeds only appends: the aggregate is, at any time, what the
\* calls returned so far, end to end in the order of the calls.
C22_FailedFileReturnsEmpty ==
    /\ \A f \in Failed :
          \E i \in 1..Len(checked) : checked[i] = f /\ returned[i] = <<>>
    /\ all_findings = Flatten(returned)

\* Node n is a call of the bare name open.
IsOpenCall(t, n) ==
    t[n].kind = "Call" /\ t[n].func.form = "Name" /\ t[n].func.id = "open"
\* Node n is the context expression of an item of an `async with`.
IsAsyncWithContext(t, n) ==
    /\ t[n].field = "context_expr"
    /\ t[n].parent # 0
    /\ t[t[n].parent].kind = "withitem"
    /\ t[t[n].parent].parent # 0
    /\ t[t[t[n].parent].parent].kind = "AsyncWith"
\* The findings of rule ASYNC006 at node n.
OpenFindingsAt(t, n) ==
    { i \in FindingsAt(t, n) : findings[i].rule = "ASYNC006" }

\* C24: rule ASYNC006 flags the open() calls that are not preceded by
\* `async with`: in an async function, outside nested sync definitions, a
\* bare open() call that is the context expression of an `async with`
\* gets no ASYNC006 Finding, and every other bare open() call gets one.
C24_OpenNotAfterAsyncWith ==
    Analysed =>
      \A n \in Nodes(Tree) :
         (/\ IsOpenCall(Tree, n)
          /\ \E F \in AsyncAbove(Tree, n) : ~InSyncContext(Tree, F, n))
         => IF IsAsyncWithContext(Tree, n)
            THEN OpenFindingsAt(Tree, n) = {}
            ELSE OpenFindingsAt(Tree, n) # {}

\* The findings of the pass over one async function F of tree t.
FindingsOfPass(t, F) ==
    NodesLoop(py_file, t, F, _nodes_inside_sync_context(t, F), walk(t, F))

\* C25: with the nine shipped rules no node satisfies two matchers, so
\* the pass over one async function yields at most one Finding for any
\* node.
C25_AtMostOneRulePerNode ==
    Analysed =>
      /\ \A n \in Nodes(Tree) : Cardinality(Matching(Tree, n)) <= 1
      /\ \A F \in AsyncDefs(Tree) :
            LET pass == FindingsOfPass(Tree, F) IN
            \A i, j \in 1..Len(pass) : pass[i].line = pass[j].line => i = j

\* requests.read() in an async function has been analysed: a callee on
\* the receiver of ASYNC001-004 with an attribute of ASYNC009, flagged
\* once, by ASYNC009.
C25_Witness ==
    /\ Analysed
    /\ \E n \in Nodes(Tree) :
          /\ Tree[n].func = AttributeFunc(NameExpr("requests"), "read")
          /\ Matching(Tree, n) = {9}
          /\ Len(findings) = 1
          /\ findings[1].rule = "ASYNC009"
          /\ findings[1].line = lineno(Tree, n)

\* The definitions (async, sync or class) that enclose node n.
DefsAbove(t, n) == { d \in Above(t, n) : IsAsyncDef(t, d) \/ IsSyncDef(t, d) }
\* G is defined in a synchronous def or class, with no other definition
\* between, that is itself nested in an async function.
DefinedInSyncInsideAsync(t, G) ==
    /\ DefsAbove(t, G) # {}
    /\ LET d == CHOOSE x \in DefsAbove(t, G) : \A y \in DefsAbove(t, G) : y <= x
       IN IsSyncDef(t, d) /\ AsyncAbove(t, d) # {}

\* C26: a blocking call in an async function G that is defined in a
\* synchronous def or class nested in an async function F yields exactly
\* one Finding per matching rule, attributed to G: excluding the sync
\* definition from F's pass does not hide G from the enumeration.
C26_AsyncInSyncInAsyncReportedOnce ==
    Analysed =>
      \A n \in Nodes(Tree) : \A G \in AsyncAbove(Tree, n) :
         (DirectlyIn(Tree, G, n) /\ DefinedInSyncInsideAsync(Tree, G)) =>
            \A k \in Matching(Tree, n) :
               /\ Cardinality(FindingsOf(Tree, n, k)) = 1
               /\ \A i \in FindingsOf(Tree, n, k) :
                     findings[i].async_func = Tree[G].name

\* async def f > class Helper > async def g > time.sleep() has been
\* analysed and gave one finding, attributed to g.
C26_Witness ==
    /\ Analysed
    /\ Len(Tree) = 4
    /\ Tree[1] = WithParent(AsyncFunctionDef("f"), 0)
    /\ Tree[2] = WithParent(ClassDef, 1)
    /\ Tree[3] = WithParent(AsyncFunctionDef("g"), 2)
    /\ Tree[4] = WithParent(Call(AttributeFunc(NameExpr("time"), "sleep")), 3)
    /\ findings = << Finding(py_file, 4, 12, "g", rules[5]) >>

\* How many times f occurs in a list of files.
Occurrences(files, f) == Cardinality({ i \in 1..Len(files) : files[i] = f })
\* The number of findings the calls for file f have returned, all told.
ReturnedFor(f) ==
    Len(Flatten([i \in 1..Len(checked) |->
                   IF checked[i] = f THEN returned[i] ELSE <<>>]))

\* C27: a file the positional paths lead to more than once is analysed
\* once per occurrence: it is fed to check_file as many times as the
\* paths reach it, its findings are appended to the aggregate and printed
\* each time, and the summary counts them that many times, in the total
\* and in the file's count.
C27_AnalysedOncePerOccurrence ==
    /\ \A f \in PyFiles :
          Occurrences(checked \o pending, f)
          = Occurrences(ArgumentOrder(next_path - 1), f)
    /\ all_findings = Flatten(returned)
    /\ Len(Diagnostics) = Len(all_findings)
    /\ \A i \in 1..Len(Diagnostics) :
          /\ Diagnostics[i].file = all_findings[i].file
          /\ Diagnostics[i].line = all_findings[i].line
          /\ Diagnostics[i].rule = all_findings[i].rule
    /\ SummaryOfFindingsPrinted =>
          /\ \A l \in Range(LinesOfKind("Total issues")) :
                l.count = Len(Flatten(returned))
          /\ \A l \in Range(LinesOfKind("by_file")) : l.count = ReturnedFor(l.file)

\* A run over a directory and then a file of that directory has ended:
\* the file, which has findings, was analysed twice and the summary
\* counts its findings twice.
C27_Witness ==
    /\ pc = "done"
    /\ summary
    /\ paths = <<"d", "d/b.py">>
    /\ checked = <<"d/b.py", "d/c.py", "d/b.py">>
    /\ returned[1] # <<>>
    /\ returned[3] = returned[1]
    /\ \E l \in Range(LinesOfKind("by_file")) :
          l.file = "d/b.py" /\ l.count = 2 * Len(returned[1])

\* Node n is a decorator or a base class of definition d, or a default
\* value of its arguments.
IsHeaderExprOf(t, d, n) ==
    \/ t[n].parent = d /\ t[n].field \in {"decorator_list", "bases"}
    \/ /\ t[n].field = "defaults"
       /\ t[n].parent # 0
       /\ t[t[n].parent].kind = "arguments"
       /\ t[t[n].parent].parent = d

\* C28: the exclusion of a synchronous def or class nested in an async
\* function covers the whole definition node: a blocking call among its
\* decorators, its base classes or the default values of its arguments
\* yields no Finding.
C28_DefinitionHeaderExcluded ==
    Analysed =>
      \A n \in Nodes(Tree) : \A d \in Nodes(Tree) :
         (/\ IsSyncDef(Tree, d)
          /\ AsyncAbove(Tree, d) # {}
          /\ IsHeaderExprOf(Tree, d, n)
          /\ Matching(Tree, n) # {})
         => \A i \in 1..Len(findings) : findings[i].line # lineno(Tree, n)

\* An async function holding a class with time.sleep() as a base class
\* and time.sleep() as a decorator has been analysed, without findings.
C28_Witness ==
    /\ Analysed
    /\ Len(Tree) = 4
    /\ IsAsyncDef(Tree, 1)
    /\ Tree[2].kind = "ClassDef" /\ Tree[2].parent = 1
    /\ \E b, c \in {3, 4} :
          /\ IsHeaderExprOf(Tree, 2, b) /\ Tree[b].field = "bases"
          /\ IsHeaderExprOf(Tree, 2, c) /\ Tree[c].field = "decorator_list"
          /\ Matching(Tree, b) # {}
          /\ Matching(Tree, c) # {}
    /\ findings = <<>>

\* Node n is a call whose callee is an attribute named read, write or
\* readlines.
IsFileRwCall(t, n) ==
    /\ t[n].kind = "Call"
    /\ t[n].func.form = "Attribute"
    /\ t[n].func.attr \in {"read", "write", "readlines"}
\* Node n is the operand of an await.
IsAwaited(t, n) ==
    t[n].field = "value" /\ t[n].parent # 0 /\ t[t[n].parent].kind = "Await"

Positionless == {"withitem", "arguments"}

\* C30: every shipped matcher accepts call expressions only and answers
\* False for a node of any other class, so no Finding is built from a
\* node that has no line and column: every Finding sits at a Call node.
C30_MatchersAcceptCallsOnly ==
    Analysed =>
      /\ \A n \in Nodes(Tree) : \A k \in 1..Len(rules) :
            matcher(rules[k], Tree[n]) => Tree[n].kind = "Call"
      /\ \A i \in 1..Len(findings) :
            \E n \in Nodes(Tree) :
               /\ findings[i].line = lineno(Tree, n)
               /\ Tree[n].kind = "Call"
               /\ Tree[n].kind \notin Positionless

\* An async function holding the name open, not called, and an
\* `async with` with its item has been analysed, without findings.
C30_Witness ==
    /\ Analysed
    /\ \E F \in AsyncDefs(Tree) :
          /\ \E n \in Nodes(Tree) :
                Tree[n].parent = F /\ Tree[n].kind = "Name" /\ Tree[n].name = "open"
          /\ \E w \in Nodes(Tree) :
                F \in Above(Tree, w) /\ Tree[w].kind \in Positionless
    /\ findings = <<>>

====
